---- MODULE Spec2Model ----
(***************************************************************************)
(* Model of the normalisation and reconciliation code of albums.py         *)
(* (normalise, normalise_index, comp, compare), of the reference           *)
(* reconciler classify, of the Playlist class of playlist.py and of        *)
(* get_year and write_playlists of albums.py.                              *)
(*                                                                         *)
(* A Python string is a sequence of one-character strings.  A catalog (a   *)
(* Python dict, which keeps insertion order and has distinct keys) is a    *)
(* sequence of [artist, albums] entries with distinct artists; albums is a *)
(* sequence of [album, tracks] entries with distinct albums.               *)
(***************************************************************************)
EXTENDS Integers, Sequences, FiniteSets, TLC

VARIABLES
    a, b,        \* the two catalogs handed to compare(a, b)
    pc,          \* position inside compare: "start", "second", "return", "done"
    calls,       \* one record per finished comp call: arguments, norm_b, returned lists
    both,        \* compare's local `both`
    a_only,      \* compare's local `a_only`
    b_only,      \* compare's local `b_only`
    result,      \* the tuple compare returned, once pc = "done"
    n_pc,        \* position of the normalise driver: "in", "once", "twice", "variant"
    n_txt,       \* the string handed to normalise
    n_out,       \* normalise(n_txt)
    n_out2,      \* normalise(n_out)
    n_var,       \* a spelling variant of n_txt
    n_varout,    \* normalise(n_var)
    c_test,      \* the test catalog handed to classify(test, reference)
    c_ref,       \* the reference catalog handed to classify
    c_pc,        \* position inside classify: "build", "match", "return", "done"
    c_artist_index, \* ref_artist_index: normalised artist -> set of raw artists
    c_album_index,  \* ref_album_index: normalised album -> set of raw albums
    c_todo,      \* the test pairs not yet classified, in order
    c_rows,      \* one record per classified test pair: the pair, its hit count, its class
    c_lists,     \* the four lists: matched, miss, artist_only_hit, album_only_hit
    p_filename,  \* Playlist._filename
    p_songs,     \* Playlist._songs
    p_call,      \* the last call made on the playlist: method, arguments, _songs before it
    p_ret,       \* what that call returned or raised
    p_out,       \* the lines the last write put into the file
    w_music,     \* the catalog handed to write_playlists
    w_pc,        \* position inside write_playlists
    w_years,     \* the local dict years: year -> list of songs
    w_todo,      \* the years of sorted(years) not yet processed
    w_decade,    \* the local decade (empty when None)
    w_dc_pl,     \* the local dc_pl: name of the current decade playlist (empty when None)
    w_pls,       \* the Playlist objects created so far: name -> list of songs
    w_log,       \* the appends and writes made on playlists, in order
    w_raised     \* the exception that ended write_playlists, "none" if none

rvars == <<a, b, pc, calls, both, a_only, b_only, result>>
nvars == <<n_pc, n_txt, n_out, n_out2, n_var, n_varout>>
cvars == <<c_test, c_ref, c_pc, c_artist_index, c_album_index, c_todo, c_rows, c_lists>>
pvars == <<p_filename, p_songs, p_call, p_ret, p_out>>
wvars == <<w_music, w_pc, w_years, w_todo, w_decade, w_dc_pl, w_pls, w_log, w_raised>>

vars == <<rvars, nvars, cvars, pvars, wvars>>

(***************************************************************************)
(* Bounds                                                                  *)
(***************************************************************************)
\* longest string handed to normalise in the normaliser specification
MaxLen == 3
\* largest catalog: number of artist keys plus number of album keys
MaxEntries == 3

(***************************************************************************)
(* Characters                                                              *)
(***************************************************************************)
\* string.punctuation (the grave accent is written "backtick": the lexer of
\* TLA+ does not accept that character inside a string)
Punctuation ==
    {"!", "\"", "#", "$", "%", "&", "'", "(", ")", "*", "+", ",", "-", ".",
     "/", ":", ";", "<", "=", ">", "?", "@", "[", "\\", "]", "^", "_", "backtick",
     "{", "|", "}", "~"}

\* the characters str.strip() removes from the ends
Whitespace == {" ", "\t", "\n", "\r"}

\* the ASCII letters the model uses, upper case and lower case side by side
UpperLetters == <<"A", "C", "D", "I", "X">>
LowerLetters == <<"a", "c", "d", "i", "x">>

\* two letters outside ASCII, written by their code points (the lexer of TLA+
\* accepts ASCII only).  U+0131 LATIN SMALL LETTER DOTLESS I is lower case:
\* str.lower() leaves it and str.upper() gives "I".  U+2102 DOUBLE-STRUCK
\* CAPITAL C is upper case (str.isupper() is true) and has no lower-case
\* form: str.lower() leaves it.
DotlessI == "U+0131"
DoubleStruckC == "U+2102"

IsAsciiUpper(c) == \E i \in DOMAIN UpperLetters : UpperLetters[i] = c
IsAsciiLower(c) == \E i \in DOMAIN LowerLetters : LowerLetters[i] = c

\* str.lower() on one character
lower_char(c) ==
    IF IsAsciiUpper(c)
    THEN LowerLetters[CHOOSE i \in DOMAIN UpperLetters : UpperLetters[i] = c]
    ELSE c

(***************************************************************************)
(* normalise                                                               *)
(***************************************************************************)
IsPunct(c) == c \in Punctuation
NotPunct(c) == c \notin Punctuation

\* txt.translate(no_punctuation)
translate(txt) == SelectSeq(txt, NotPunct)

RECURSIVE lstrip(_)
lstrip(txt) ==
    IF txt # <<>> /\ Head(txt) \in Whitespace THEN lstrip(Tail(txt)) ELSE txt

RECURSIVE rstrip(_)
rstrip(txt) ==
    IF txt # <<>> /\ txt[Len(txt)] \in Whitespace
    THEN rstrip(SubSeq(txt, 1, Len(txt) - 1))
    ELSE txt

\* str.strip()
strip(txt) == rstrip(lstrip(txt))

\* str.lower()
lower(txt) == [i \in 1..Len(txt) |-> lower_char(txt[i])]

\* normalise with the strip done before the punctuation is removed, and
\* normalise without the lower-casing
normalise_StripFirst(txt) == lower(translate(strip(txt)))
normalise_NoLower(txt) == strip(translate(txt))

normalise(txt) == lower(strip(translate(txt)))

(***************************************************************************)
(* normalise_index, comp, compare as functions                             *)
(***************************************************************************)
\* an empty Python dict
EmptyDict == [k \in {} |-> k]

\* d[k] = v on a dict used only for lookups (its key order is never read)
DictSet(d, k, v) == [x \in (DOMAIN d) \cup {k} |-> IF x = k THEN v ELSE d[x]]

\* lines 475-477: the value left under a normalised album key is the empty
\* list when the album has no tag, else the album's last tag
last_tag(tracks) == IF tracks = <<>> THEN <<>> ELSE tracks[Len(tracks)]

\* faulty variant: the album key is stored as it is spelt, not normalised
RECURSIVE normalise_albums_RawKey(_, _)
normalise_albums_RawKey(albums, norm_artist_dict) ==
    IF albums = <<>>
    THEN norm_artist_dict
    ELSE normalise_albums_RawKey(Tail(albums),
             DictSet(norm_artist_dict, Head(albums).album,
                     last_tag(Head(albums).tracks)))

\* lines 472-477: the inner loop of normalise_index over one artist's albums
RECURSIVE normalise_albums(_, _)
normalise_albums(albums, norm_artist_dict) ==
    IF albums = <<>>
    THEN norm_artist_dict
    ELSE normalise_albums(Tail(albums),
             DictSet(norm_artist_dict, normalise(Head(albums).album),
                     last_tag(Head(albums).tracks)))

\* lines 468-477: the outer loop of normalise_index; line 471 rebinds
\* norm[norm_artist] to a new empty dict for every raw artist key
RECURSIVE normalise_artists(_, _)
normalise_artists(index, norm) ==
    IF index = <<>>
    THEN norm
    ELSE normalise_artists(Tail(index),
             DictSet(norm, normalise(Head(index).artist),
                     normalise_albums(Head(index).albums, EmptyDict)))

normalise_index(index) == normalise_artists(index, EmptyDict)

\* the dicts comp appends: {'artist': artist, 'album': album}
AA(artist, album) == [artist |-> artist, album |-> album]

\* the (artist, album) pairs of one artist entry, in the order of the inner loop
artist_pairs(entry) ==
    [j \in 1..Len(entry.albums) |-> AA(entry.artist, entry.albums[j].album)]

\* the (artist, album) pairs of a catalog in the order comp's loops visit them
RECURSIVE iter_pairs(_)
iter_pairs(index) ==
    IF index = <<>> THEN <<>>
    ELSE artist_pairs(Head(index)) \o iter_pairs(Tail(index))

\* faulty variant: an artist that b does not have counts as a hit
match_MissingArtistHits(norm_b, norm_artist, norm_album) ==
    norm_artist \in DOMAIN norm_b => norm_album \in DOMAIN norm_b[norm_artist]

\* lines 508-511
match(norm_b, norm_artist, norm_album) ==
    /\ norm_artist \in DOMAIN norm_b
    /\ norm_album \in DOMAIN norm_b[norm_artist]

\* faulty variant: a hit is appended to both lists
comp_HitInBothLists(x, y) ==
    LET norm_b == normalise_index(y)
        pairs == iter_pairs(x)
        Hit(p) == match(norm_b, normalise(p.artist), normalise(p.album))
    IN  [norm_b |-> norm_b, both |-> SelectSeq(pairs, Hit), a_only |-> pairs]

\* comp(x, y): lines 501-518
comp(x, y) ==
    LET norm_b == normalise_index(y)
        pairs == iter_pairs(x)
        Hit(p) == match(norm_b, normalise(p.artist), normalise(p.album))
        Miss(p) == ~Hit(p)
    IN  [norm_b |-> norm_b,
         both |-> SelectSeq(pairs, Hit),
         a_only |-> SelectSeq(pairs, Miss)]

\* compare(x, y): lines 543-545
compare(x, y) ==
    LET first == comp(x, y)
        second == comp(y, x)
    IN  [both |-> second.both, a_only |-> first.a_only, b_only |-> second.a_only]

(***************************************************************************)
(* The catalogs the reconciler is run on                                   *)
(***************************************************************************)
\* artist keys: two spellings with one normalised form, and the empty string
ArtistNames == {<<"A", "/">>, <<"a">>, <<>>}

\* album keys: the empty string, a key that normalises to it, and another
AlbumNames == {<<>>, <<"/">>, <<"X">>}

\* the tags filed under an album
TracksOf(album) ==
    IF album = <<>> THEN <<>>
    ELSE IF album = <<"/">> THEN <<"t1">>
    ELSE <<"t1", "t2">>

\* every album mapping with distinct keys from `free` and at most n keys
RECURSIVE AlbumDicts(_, _)
AlbumDicts(free, n) ==
    {<<>>} \cup
    (IF n = 0 THEN {}
     ELSE UNION {{<<[album |-> k, tracks |-> TracksOf(k)]>> \o rest :
                    rest \in AlbumDicts(free \ {k}, n - 1)} : k \in free})

\* every catalog with distinct artist keys from `free` and at most n entries
RECURSIVE CatalogsOver(_, _)
CatalogsOver(free, n) ==
    {<<>>} \cup
    (IF n = 0 THEN {}
     ELSE UNION {UNION {{<<[artist |-> k, albums |-> al]>> \o rest :
                           rest \in CatalogsOver(free \ {k}, n - 1 - Len(al))} :
                        al \in AlbumDicts(AlbumNames, n - 1)} : k \in free})

Catalogs == CatalogsOver(ArtistNames, MaxEntries)

(***************************************************************************)
(* The strings the normaliser is run on                                    *)
(***************************************************************************)
Alphabet == {"A", "a", "D", "/", " ", "1", DotlessI, DoubleStruckC}

RECURSIVE StringsUpTo(_)
StringsUpTo(n) ==
    IF n = 0 THEN {<<>>}
    ELSE LET shorter == StringsUpTo(n - 1)
         IN  shorter \cup {Append(s, c) : s \in shorter, c \in Alphabet}

\* "AC/DC", "ACDC" and " acdc "
ACDCSpellings ==
    {<<"A", "C", "/", "D", "C">>, <<"A", "C", "D", "C">>,
     <<" ", "a", "c", "d", "c", " ">>}

Strings == StringsUpTo(MaxLen) \cup ACDCSpellings

\* str.isupper() and str.islower() on one character
IsUpper(c) == IsAsciiUpper(c) \/ c = DoubleStruckC
IsLower(c) == IsAsciiLower(c) \/ c = DotlessI

\* str.upper() on one character
upper_char(c) ==
    IF IsAsciiLower(c)
    THEN UpperLetters[CHOOSE i \in DOMAIN LowerLetters : LowerLetters[i] = c]
    ELSE IF c = DotlessI THEN "I"
    ELSE c

\* the ways a string is respelt by one edit: a punctuation character removed
\* or inserted, the case of one letter changed, whitespace removed from or
\* added at an end
RemoveAt(s, i) == SubSeq(s, 1, i - 1) \o SubSeq(s, i + 1, Len(s))
InsertAt(s, i, c) == SubSeq(s, 1, i - 1) \o <<c>> \o SubSeq(s, i, Len(s))
SwapCase(c) == IF IsUpper(c) THEN lower_char(c) ELSE upper_char(c)

PunctuationVariants(s) ==
    {RemoveAt(s, i) : i \in {j \in 1..Len(s) : IsPunct(s[j])}}
    \cup {InsertAt(s, i, c) : i \in 1..(Len(s) + 1), c \in {"/", "."}}

CaseVariantsAt(s, positions) ==
    {[s EXCEPT ![i] = SwapCase(s[i])] : i \in positions}

CaseVariants(s) == CaseVariantsAt(s, 1..Len(s))

AsciiCaseVariants(s) ==
    CaseVariantsAt(s, {i \in 1..Len(s) : IsAsciiUpper(s[i]) \/ IsAsciiLower(s[i])})

EndVariants(s) ==
    {<<w>> \o s : w \in {" ", "\t"}}
    \cup {Append(s, w) : w \in {" ", "\t"}}
    \cup (IF s # <<>> /\ Head(s) \in Whitespace THEN {Tail(s)} ELSE {})
    \cup (IF s # <<>> /\ s[Len(s)] \in Whitespace
          THEN {SubSeq(s, 1, Len(s) - 1)} ELSE {})

Variants(s) == (PunctuationVariants(s) \cup CaseVariants(s) \cup EndVariants(s)) \ {s}

AsciiVariants(s) ==
    (PunctuationVariants(s) \cup AsciiCaseVariants(s) \cup EndVariants(s)) \ {s}

(***************************************************************************)
(* The reconciler as a state machine: one run of compare(a, b)             *)
(***************************************************************************)
NoResult == [both |-> <<>>, a_only |-> <<>>, b_only |-> <<>>]

CallRecord(x, y, r) ==
    [x |-> x, y |-> y, norm_b |-> r.norm_b, both |-> r.both, a_only |-> r.a_only]

InitCompare ==
    /\ a \in Catalogs
    /\ b \in Catalogs
    /\ pc = "start"
    /\ calls = <<>>
    /\ both = <<>>
    /\ a_only = <<>>
    /\ b_only = <<>>
    /\ result = NoResult

InitNormaliseIdle ==
    /\ n_pc = "idle"
    /\ n_txt = <<>>
    /\ n_out = <<>>
    /\ n_out2 = <<>>
    /\ n_var = <<>>
    /\ n_varout = <<>>

NoLists == [matched |-> <<>>, miss |-> <<>>, artist_only_hit |-> <<>>,
            album_only_hit |-> <<>>]

InitClassifyIdle ==
    /\ c_test = <<>>
    /\ c_ref = <<>>
    /\ c_pc = "idle"
    /\ c_artist_index = EmptyDict
    /\ c_album_index = EmptyDict
    /\ c_todo = <<>>
    /\ c_rows = <<>>
    /\ c_lists = NoLists

NoCall == [method |-> "none", before |-> <<>>]

InitPlaylistIdle ==
    /\ p_filename = <<>>
    /\ p_songs = <<>>
    /\ p_call = NoCall
    /\ p_ret = "none"
    /\ p_out = <<>>

InitWriteIdle ==
    /\ w_music = <<>>
    /\ w_pc = "idle"
    /\ w_years = EmptyDict
    /\ w_todo = <<>>
    /\ w_decade = <<>>
    /\ w_dc_pl = <<>>
    /\ w_pls = EmptyDict
    /\ w_log = <<>>
    /\ w_raised = "none"

\* faulty variant: the normalised artist keys are written into catalog b
CompareFirst_InPlace ==
    /\ pc = "start"
    /\ LET r == comp(a, b)
       IN  /\ calls' = Append(calls, CallRecord(a, b, r))
           /\ both' = r.both
           /\ a_only' = r.a_only
    /\ b' = [i \in 1..Len(b) |-> [b[i] EXCEPT !.artist = normalise(b[i].artist)]]
    /\ pc' = "second"
    /\ UNCHANGED <<a, b_only, result>>
    /\ UNCHANGED <<nvars, cvars, pvars, wvars>>

\* line 543: both, a_only = comp(a, b)
CompareFirst ==
    /\ pc = "start"
    /\ LET r == comp(a, b)
       IN  /\ calls' = Append(calls, CallRecord(a, b, r))
           /\ both' = r.both
           /\ a_only' = r.a_only
    /\ pc' = "second"
    /\ UNCHANGED <<a, b, b_only, result>>
    /\ UNCHANGED <<nvars, cvars, pvars, wvars>>

\* line 544: both, b_only = comp(b, a)
CompareSecond ==
    /\ pc = "second"
    /\ LET r == comp(b, a)
       IN  /\ calls' = Append(calls, CallRecord(b, a, r))
           /\ both' = r.both
           /\ b_only' = r.a_only
    /\ pc' = "return"
    /\ UNCHANGED <<a, b, a_only, result>>
    /\ UNCHANGED <<nvars, cvars, pvars, wvars>>

\* line 545: return both, a_only, b_only
CompareReturn ==
    /\ pc = "return"
    /\ result' = [both |-> both, a_only |-> a_only, b_only |-> b_only]
    /\ pc' = "done"
    /\ UNCHANGED <<a, b, calls, both, a_only, b_only>>
    /\ UNCHANGED <<nvars, cvars, pvars, wvars>>

Init ==
    InitCompare /\ InitNormaliseIdle /\ InitClassifyIdle /\ InitPlaylistIdle
        /\ InitWriteIdle

Next == CompareFirst \/ CompareSecond \/ CompareReturn

Spec == Init /\ [][Next]_vars

(***************************************************************************)
(* The normaliser as a state machine: normalise applied to a string, to    *)
(* its own result, and to a respelling of the string                       *)
(***************************************************************************)
InitCompareIdle ==
    /\ a = <<>>
    /\ b = <<>>
    /\ pc = "idle"
    /\ calls = <<>>
    /\ both = <<>>
    /\ a_only = <<>>
    /\ b_only = <<>>
    /\ result = NoResult

InitNormalise ==
    /\ n_txt \in Strings
    /\ n_pc = "in"
    /\ n_out = <<>>
    /\ n_out2 = <<>>
    /\ n_var = <<>>
    /\ n_varout = <<>>

\* normalise(n_txt)
Normalise ==
    /\ n_pc = "in"
    /\ n_out' = normalise(n_txt)
    /\ n_pc' = "once"
    /\ UNCHANGED <<n_txt, n_out2, n_var, n_varout>>
    /\ UNCHANGED <<rvars, cvars, pvars, wvars>>

\* normalise(normalise(n_txt))
NormaliseAgain ==
    /\ n_pc = "once"
    /\ n_out2' = normalise(n_out)
    /\ n_pc' = "twice"
    /\ UNCHANGED <<n_txt, n_out, n_var, n_varout>>
    /\ UNCHANGED <<rvars, cvars, pvars, wvars>>

\* normalise of a respelling of n_txt
NormaliseVariant ==
    /\ n_pc = "once"
    /\ \E v \in Variants(n_txt) :
          /\ n_var' = v
          /\ n_varout' = normalise(v)
    /\ n_pc' = "variant"
    /\ UNCHANGED <<n_txt, n_out, n_out2>>
    /\ UNCHANGED <<rvars, cvars, pvars, wvars>>

InitN ==
    InitCompareIdle /\ InitNormalise /\ InitClassifyIdle /\ InitPlaylistIdle
        /\ InitWriteIdle

NextN == Normalise \/ NormaliseAgain \/ NormaliseVariant

SpecNormalise == InitN /\ [][NextN]_vars

(***************************************************************************)
(* The reference reconciler classify(test, reference)                      *)
(***************************************************************************)
\* largest reference catalog, and largest test catalog, handed to classify:
\* number of artist keys plus number of album keys
MaxRefEntries == 4
MaxTestEntries == 2

\* add raw string v to the set kept under key k (a raw string that is
\* already there is not added again)
IndexAdd(d, k, v) ==
    [x \in (DOMAIN d) \cup {k} |->
        IF x = k THEN (IF k \in DOMAIN d THEN d[k] ELSE {}) \cup {v} ELSE d[x]]

\* build phase: normalised artist -> set of raw artist strings
RECURSIVE ref_artist_index(_, _)
ref_artist_index(reference, index) ==
    IF reference = <<>> THEN index
    ELSE ref_artist_index(Tail(reference),
             IndexAdd(index, normalise(Head(reference).artist),
                      Head(reference).artist))

RECURSIVE index_albums(_, _)
index_albums(albums, index) ==
    IF albums = <<>> THEN index
    ELSE index_albums(Tail(albums),
             IndexAdd(index, normalise(Head(albums).album), Head(albums).album))

\* build phase: normalised album -> set of raw album strings, accumulated
\* across all artists of the reference
RECURSIVE ref_album_index(_, _)
ref_album_index(reference, index) ==
    IF reference = <<>> THEN index
    ELSE ref_album_index(Tail(reference),
             index_albums(Head(reference).albums, index))

\* faulty variant: every combination of a found artist and a found album
\* counts as a candidate
passes_NoCrossValidation(reference, ra, rb) == TRUE

\* cross-validation: reference[ra] contains album rb
passes(reference, ra, rb) ==
    \E i \in DOMAIN reference :
        /\ reference[i].artist = ra
        /\ \E j \in DOMAIN reference[i].albums : reference[i].albums[j].album = rb

\* faulty variant: with several candidates one of them is taken as the match
resolution_AnyCandidate(artist_found, album_found, hit) ==
    IF ~artist_found /\ ~album_found THEN "miss"
    ELSE IF ~artist_found THEN "album_only_hit"
    ELSE IF ~album_found THEN "artist_only_hit"
    ELSE IF hit = 0 THEN "miss"
    ELSE "matched"

\* the decision table of the match phase and the three outcomes of the
\* cross-validation
resolution(artist_found, album_found, hit) ==
    IF ~artist_found /\ ~album_found THEN "miss"
    ELSE IF ~artist_found THEN "album_only_hit"
    ELSE IF ~album_found THEN "artist_only_hit"
    ELSE IF hit = 0 THEN "miss"
    ELSE IF hit = 1 THEN "matched"
    ELSE "album_only_hit"

\* match phase for one test pair p: the class it gets and the entry reported
classify_pair(reference, artist_index, album_index, p) ==
    LET norm_artist == normalise(p.artist)
        norm_album == normalise(p.album)
        artist_found == norm_artist \in DOMAIN artist_index
        album_found == norm_album \in DOMAIN album_index
        found_artist == IF artist_found THEN artist_index[norm_artist] ELSE {}
        found_album == IF album_found THEN album_index[norm_album] ELSE {}
        candidates == {c \in found_artist \X found_album :
                          passes(reference, c[1], c[2])}
        hit == Cardinality(candidates)
        class == resolution(artist_found, album_found, hit)
        chosen == CHOOSE c \in candidates : TRUE
    IN  [pair |-> p,
         hit |-> hit,
         class |-> class,
         entry |-> IF class = "matched" THEN AA(chosen[1], chosen[2]) ELSE p]

RefCatalogs == CatalogsOver(ArtistNames, MaxRefEntries)
TestCatalogs == CatalogsOver(ArtistNames, MaxTestEntries)

InitClassify ==
    /\ c_test \in TestCatalogs
    /\ c_ref \in RefCatalogs
    /\ c_pc = "build"
    /\ c_artist_index = EmptyDict
    /\ c_album_index = EmptyDict
    /\ c_todo = <<>>
    /\ c_rows = <<>>
    /\ c_lists = NoLists

\* build phase over the reference
ClassifyBuild ==
    /\ c_pc = "build"
    /\ c_artist_index' = ref_artist_index(c_ref, EmptyDict)
    /\ c_album_index' = ref_album_index(c_ref, EmptyDict)
    /\ c_todo' = iter_pairs(c_test)
    /\ c_pc' = "match"
    /\ UNCHANGED <<c_test, c_ref, c_rows, c_lists>>
    /\ UNCHANGED <<rvars, nvars, pvars, wvars>>

\* match phase: the next test pair is classified and filed
ClassifyPair ==
    /\ c_pc = "match"
    /\ c_todo # <<>>
    /\ LET row == classify_pair(c_ref, c_artist_index, c_album_index, Head(c_todo))
       IN  /\ c_rows' = Append(c_rows, row)
           /\ c_lists' = [c_lists EXCEPT ![row.class] = Append(@, row.entry)]
    /\ c_todo' = Tail(c_todo)
    /\ UNCHANGED <<c_test, c_ref, c_pc, c_artist_index, c_album_index>>
    /\ UNCHANGED <<rvars, nvars, pvars, wvars>>

\* the four lists are returned
ClassifyReturn ==
    /\ c_pc = "match"
    /\ c_todo = <<>>
    /\ c_pc' = "done"
    /\ UNCHANGED <<c_test, c_ref, c_artist_index, c_album_index, c_todo, c_rows,
                   c_lists>>
    /\ UNCHANGED <<rvars, nvars, pvars, wvars>>

InitC ==
    InitCompareIdle /\ InitNormaliseIdle /\ InitClassify /\ InitPlaylistIdle
        /\ InitWriteIdle

NextC == ClassifyBuild \/ ClassifyPair \/ ClassifyReturn

SpecClassify == InitC /\ [][NextC]_vars

(***************************************************************************)
(* playlist.py: class Playlist                                             *)
(***************************************************************************)
\* longest song list a playlist is grown to
MaxSongs == 3

\* the keys append and insert ask for
RequiredKeys == {"title", "location", "duration"}

\* a dict-like tag_data is the set of its keys and the song it describes
Tag(id, keys) == [id |-> id, keys |-> keys]

\* 'title' in tag_data and 'location' in tag_data and 'duration' in tag_data
has_keys(tag_data) ==
    /\ "title" \in tag_data.keys
    /\ "location" \in tag_data.keys
    /\ "duration" \in tag_data.keys

\* faulty variant: append without the test of the keys
pl_append_NoCheck(songs, tag_data) ==
    [songs |-> Append(songs, tag_data), ret |-> "self"]

\* Playlist.append: the new _songs and what the call returns or raises
pl_append(songs, tag_data) ==
    IF has_keys(tag_data)
    THEN [songs |-> Append(songs, tag_data), ret |-> "self"]
    ELSE [songs |-> songs, ret |-> "ValueError"]

\* list.insert(position, x): a negative position counts from the end, and a
\* position outside the list is moved to the nearer end
list_insert(songs, position, x) ==
    LET n == Len(songs)
        fromstart == IF position < 0 THEN position + n ELSE position
        at == IF fromstart < 0 THEN 0 ELSE IF fromstart > n THEN n ELSE fromstart
    IN  SubSeq(songs, 1, at) \o <<x>> \o SubSeq(songs, at + 1, n)

\* Playlist.insert: there is no return statement, so a call that does not
\* raise returns None
pl_insert(songs, position, tag_data) ==
    IF has_keys(tag_data)
    THEN [songs |-> list_insert(songs, position, tag_data), ret |-> "None"]
    ELSE [songs |-> songs, ret |-> "ValueError"]

\* Playlist.remove: list.remove drops the first equal item and raises
\* ValueError when there is none
pl_remove(songs, tag_data) ==
    IF \E i \in DOMAIN songs : songs[i] = tag_data
    THEN LET first == CHOOSE i \in DOMAIN songs :
                          /\ songs[i] = tag_data
                          /\ \A j \in 1..(i - 1) : songs[j] # tag_data
         IN  [songs |-> SubSeq(songs, 1, first - 1) \o SubSeq(songs, first + 1, Len(songs)),
              ret |-> "None"]
    ELSE [songs |-> songs, ret |-> "ValueError"]

\* the lines write puts out for one song
song_lines(song, relative, record_markers) ==
    (IF record_markers THEN <<[line |-> "#EXTINF", song |-> song.id]>> ELSE <<>>)
    \o <<[line |-> IF relative THEN "relpath" ELSE "location", song |-> song.id]>>

RECURSIVE songs_lines(_, _, _)
songs_lines(songs, relative, record_markers) ==
    IF songs = <<>> THEN <<>>
    ELSE song_lines(Head(songs), relative, record_markers)
         \o songs_lines(Tail(songs), relative, record_markers)

\* Playlist.write: IOError without a filename; song['duration'],
\* song['title'] and song['location'] raise KeyError on a song without the key
pl_write(filename, songs, relative, record_markers) ==
    IF filename = <<>>
    THEN [out |-> <<>>, ret |-> "IOError"]
    ELSE IF \E i \in DOMAIN songs :
                \/ "location" \notin songs[i].keys
                \/ record_markers /\ ~({"duration", "title"} \subseteq songs[i].keys)
    THEN [out |-> <<>>, ret |-> "KeyError"]
    ELSE [out |-> (IF record_markers THEN <<[line |-> "#EXTM3U", song |-> 0]>> ELSE <<>>)
                  \o songs_lines(songs, relative, record_markers),
          ret |-> "None"]

\* the tag_data handed to a playlist: two songs with every key, one with a
\* further key, and one song short of each required key
TagData ==
    {Tag(1, RequiredKeys), Tag(2, RequiredKeys),
     Tag(2, RequiredKeys \cup {"release_date"})}
    \cup {Tag(1, RequiredKeys \ {k}) : k \in RequiredKeys}

Positions == (0 - MaxSongs - 1)..(MaxSongs + 1)

\* Playlist(filename): __init__
InitPlaylist ==
    /\ p_filename \in {<<>>, <<"list.m3u">>}
    /\ p_songs = <<>>
    /\ p_call = NoCall
    /\ p_ret = "none"
    /\ p_out = <<>>

PlAppend ==
    /\ Len(p_songs) < MaxSongs
    /\ \E tag_data \in TagData :
          LET r == pl_append(p_songs, tag_data)
          IN  /\ p_songs' = r.songs
              /\ p_ret' = r.ret
              /\ p_call' = [method |-> "append", tag_data |-> tag_data,
                            before |-> p_songs]
    /\ UNCHANGED <<p_filename, p_out>>
    /\ UNCHANGED <<rvars, nvars, cvars, wvars>>

PlInsert ==
    /\ Len(p_songs) < MaxSongs
    /\ \E tag_data \in TagData, position \in Positions :
          LET r == pl_insert(p_songs, position, tag_data)
          IN  /\ p_songs' = r.songs
              /\ p_ret' = r.ret
              /\ p_call' = [method |-> "insert", tag_data |-> tag_data,
                            position |-> position, before |-> p_songs]
    /\ UNCHANGED <<p_filename, p_out>>
    /\ UNCHANGED <<rvars, nvars, cvars, wvars>>

PlRemove ==
    /\ \E tag_data \in TagData :
          LET r == pl_remove(p_songs, tag_data)
          IN  /\ p_songs' = r.songs
              /\ p_ret' = r.ret
              /\ p_call' = [method |-> "remove", tag_data |-> tag_data,
                            before |-> p_songs]
    /\ UNCHANGED <<p_filename, p_out>>
    /\ UNCHANGED <<rvars, nvars, cvars, wvars>>

PlWrite ==
    /\ \E relative \in BOOLEAN, record_markers \in BOOLEAN :
          LET r == pl_write(p_filename, p_songs, relative, record_markers)
          IN  /\ p_out' = r.out
              /\ p_ret' = r.ret
              /\ p_call' = [method |-> "write", relative |-> relative,
                            record_markers |-> record_markers, before |-> p_songs]
    /\ UNCHANGED <<p_filename, p_songs>>
    /\ UNCHANGED <<rvars, nvars, cvars, wvars>>

InitP ==
    InitCompareIdle /\ InitNormaliseIdle /\ InitClassifyIdle /\ InitPlaylist
        /\ InitWriteIdle

NextP == PlAppend \/ PlInsert \/ PlRemove \/ PlWrite

SpecPlaylist == InitP /\ [][NextP]_vars

(***************************************************************************)
(* albums.py: get_year and write_playlists                                 *)
(***************************************************************************)
\* largest catalog handed to write_playlists: artists plus albums plus songs
MaxMusicEntries == 5

\* a release date string is the format it is written in and the number its
\* year digits spell; None is the form "None"
Date(form, digits) == [form |-> form, digits |-> digits]
NoDate == Date("None", 0)

\* strptime's %y: 69..99 are 1969..1999 and 0..68 are 2000..2068
two_digit_year(n) == IF n >= 69 THEN 1900 + n ELSE 2000 + n

\* get_year: the formats are tried from the most to the least precise; the
\* result is the empty sequence for None and <<year>> for a year
get_year(datestring) ==
    IF datestring.form = "None" THEN <<>>
    ELSE IF datestring.form = "%Y-%m-%dT%H:%M:%SZ" THEN <<datestring.digits>>
    ELSE IF datestring.form = "%Y-%m-%d" THEN <<datestring.digits>>
    ELSE IF datestring.form = "%Y-%m" THEN <<datestring.digits>>
    ELSE IF datestring.form = "%Y" THEN <<datestring.digits>>
    ELSE IF datestring.form = "%y" THEN <<two_digit_year(datestring.digits)>>
    ELSE <<>>

\* faulty variant: the year itself is taken as its decade
decade_of_Year(yr) == yr

\* math.floor(yr/10)*10 (the code compares and names decades by the decimal
\* string of this number, which is one string per number)
decade_of(yr) == (yr \div 10) * 10

\* the Playlist objects of write_playlists, named by what their file is for
PlName(kind, x, y) == <<kind, x, y>>

\* an append to, or a write of, a playlist
Event(op, pl, song) == [op |-> op, pl |-> pl, song |-> song]
NoSong == <<0, 0, 0>>

\* the state the loops of write_playlists work on
NewPlaylist(st, name) == [st EXCEPT !.pls = DictSet(st.pls, name, <<>>)]

\* pl.append(song) on a playlist of st; ret tells whether ValueError was raised
AppendTo(st, name, song) ==
    LET r == pl_append(st.pls[name], song)
    IN  [st |-> IF r.ret = "self"
                THEN [st EXCEPT !.pls = DictSet(st.pls, name, r.songs),
                                !.log = Append(st.log, Event("append", name, song.id))]
                ELSE st,
         ret |-> r.ret]

\* pl.write(relative=relative) on a playlist of st
WriteOut(st, name) ==
    LET r == pl_write(<<name>>, st.pls[name], TRUE, TRUE)
    IN  IF r.ret = "None"
        THEN [st EXCEPT !.log = Append(st.log, Event("write", name, NoSong))]
        ELSE [st EXCEPT !.raised = r.ret]

\* lines 671-676: the song is put under its year
PutYear(st, yr, song) ==
    [st EXCEPT !.years =
        DictSet(st.years, yr,
                IF yr \in DOMAIN st.years THEN Append(st.years[yr], song)
                ELSE <<song>>)]

\* lines 664-679: the body of the loop over the songs of an album
collect_song(st, artist_pl, album_pl, song) ==
    IF "title" \notin song.keys THEN [st EXCEPT !.raised = "KeyError"]
    ELSE LET first == AppendTo(st, artist_pl, song)
         IN  IF first.ret = "ValueError" THEN st
             ELSE LET second == AppendTo(first.st, album_pl, song)
                  IN  IF "release_date" \notin song.keys
                      THEN [second.st EXCEPT !.raised = "KeyError"]
                      ELSE LET yr == get_year(song.release_date)
                           IN  IF yr = <<>> THEN second.st
                               ELSE PutYear(second.st, yr[1], song)

\* lines 663-679: the loop over the songs of album j of artist i, from song k
RECURSIVE collect_songs(_, _, _, _, _)
collect_songs(st, songs, i, j, k) ==
    IF k > Len(songs) \/ st.raised # "none" THEN st
    ELSE collect_songs(
             collect_song(st, PlName("artist", i, 0), PlName("album", i, j),
                          [id |-> <<i, j, k>>, keys |-> songs[k].keys,
                           release_date |-> songs[k].release_date]),
             songs, i, j, k + 1)

\* lines 654-683: the loop over the albums of artist i, from album j
RECURSIVE collect_albums(_, _, _, _)
collect_albums(st, albums, i, j) ==
    IF j > Len(albums) \/ st.raised # "none" THEN st
    ELSE LET made == NewPlaylist(st, PlName("album", i, j))
             filled == collect_songs(made, albums[j], i, j, 1)
             written == IF filled.raised # "none" THEN filled
                        ELSE WriteOut(filled, PlName("album", i, j))
         IN  collect_albums(written, albums, i, j + 1)

\* lines 640-686: the loop over the artists, from artist i
RECURSIVE collect_artists(_, _, _)
collect_artists(st, music, i) ==
    IF i > Len(music) \/ st.raised # "none" THEN st
    ELSE LET made == NewPlaylist(st, PlName("artist", i, 0))
             filled == collect_albums(made, music[i], i, 1)
             written == IF filled.raised # "none" THEN filled
                        ELSE WriteOut(filled, PlName("artist", i, 0))
         IN  collect_artists(written, music, i + 1)

\* sorted(years)
RECURSIVE sorted(_)
sorted(S) ==
    IF S = {} THEN <<>>
    ELSE LET least == CHOOSE x \in S : \A y \in S : x <= y
         IN  <<least>> \o sorted(S \ {least})

\* lines 712-714: the songs of a year go to the year and the decade playlist
RECURSIVE fill_year(_, _, _, _)
fill_year(st, songs, yr_pl, dc_pl) ==
    IF songs = <<>> THEN st
    ELSE fill_year(AppendTo(AppendTo(st, yr_pl, Head(songs)).st, dc_pl, Head(songs)).st,
                   Tail(songs), yr_pl, dc_pl)

\* the release dates of the songs: None, a year in each format, and a string
\* no format parses
ReleaseDates ==
    {NoDate, Date("%Y-%m-%dT%H:%M:%SZ", 1989), Date("%Y", 1990), Date("%y", 99),
     Date("garbage", 0)}

\* the songs: every key and each release date; one song short of duration,
\* one short of title and one short of release_date
SongKinds ==
    {[keys |-> RequiredKeys \cup {"release_date"}, release_date |-> d] :
        d \in ReleaseDates}
    \cup {[keys |-> {"title", "location", "release_date"},
           release_date |-> Date("%Y", 1990)],
          [keys |-> {"location", "duration", "release_date"},
           release_date |-> Date("%Y", 1990)],
          [keys |-> RequiredKeys, release_date |-> NoDate]}

\* every sequence of at most n items of S, each item costing one entry
RECURSIVE SeqsUpTo(_, _)
SeqsUpTo(S, n) ==
    IF n = 0 THEN {<<>>}
    ELSE LET shorter == SeqsUpTo(S, n - 1)
         IN  shorter \cup {Append(q, x) : q \in shorter, x \in S}

\* every list of albums (each a list of songs) of at most n entries
RECURSIVE AlbumLists(_)
AlbumLists(n) ==
    {<<>>} \cup
    (IF n = 0 THEN {}
     ELSE UNION {{<<songs>> \o rest : rest \in AlbumLists(n - 1 - Len(songs))} :
                 songs \in SeqsUpTo(SongKinds, n - 1)})

\* the songs in a list of albums
RECURSIVE Entries(_)
Entries(albums) ==
    IF albums = <<>> THEN 0 ELSE Len(Head(albums)) + Entries(Tail(albums))

\* every catalog (a list of artists, each a list of albums) of at most n entries
RECURSIVE MusicOver(_)
MusicOver(n) ==
    {<<>>} \cup
    (IF n = 0 THEN {}
     ELSE UNION {{<<albums>> \o rest :
                     rest \in MusicOver(n - 1 - Len(albums)
                                        - Entries(albums))} :
                 albums \in AlbumLists(n - 1)})

InitWrite ==
    /\ w_music \in MusicOver(MaxMusicEntries)
    /\ w_pc = "collect"
    /\ w_years = EmptyDict
    /\ w_todo = <<>>
    /\ w_decade = <<>>
    /\ w_dc_pl = <<>>
    /\ w_pls = EmptyDict
    /\ w_log = <<>>
    /\ w_raised = "none"

\* lines 624-686: years = {} and the loops over artists, albums and songs
WpCollect ==
    /\ w_pc = "collect"
    /\ LET st == collect_artists(
                     [years |-> EmptyDict, pls |-> EmptyDict, log |-> <<>>,
                      raised |-> "none"],
                     w_music, 1)
       IN  /\ w_years' = st.years
           /\ w_pls' = st.pls
           /\ w_log' = st.log
           /\ w_raised' = st.raised
           /\ w_pc' = IF st.raised = "none" THEN "sort" ELSE "raised"
    /\ UNCHANGED <<w_music, w_todo, w_decade, w_dc_pl>>
    /\ UNCHANGED <<rvars, nvars, cvars, pvars>>

\* lines 690-692: decade = None, dc_pl = None, sorted(years)
WpSort ==
    /\ w_pc = "sort"
    /\ w_decade' = <<>>
    /\ w_dc_pl' = <<>>
    /\ w_todo' = sorted(DOMAIN w_years)
    /\ w_pc' = "years"
    /\ UNCHANGED <<w_music, w_years, w_pls, w_log, w_raised>>
    /\ UNCHANGED <<rvars, nvars, cvars, pvars>>

\* lines 693-718: one pass of the loop over the sorted years
WpYear ==
    /\ w_pc = "years"
    /\ w_todo # <<>>
    /\ LET yr == Head(w_todo)
           st0 == [years |-> w_years, pls |-> w_pls, log |-> w_log, raised |-> "none"]
           changed == w_decade # <<decade_of(yr)>>
           st1 == IF changed /\ w_decade # <<>> THEN WriteOut(st0, w_dc_pl[1]) ELSE st0
           dc_pl == IF changed THEN PlName("decade", decade_of(yr), 0) ELSE w_dc_pl[1]
           st2 == IF changed THEN NewPlaylist(st1, dc_pl) ELSE st1
           yr_pl == PlName("year", yr, 0)
           st3 == fill_year(NewPlaylist(st2, yr_pl), w_years[yr], yr_pl, dc_pl)
           st4 == WriteOut(st3, yr_pl)
       IN  /\ w_decade' = <<decade_of(yr)>>
           /\ w_dc_pl' = <<dc_pl>>
           /\ w_pls' = st4.pls
           /\ w_log' = st4.log
    /\ w_todo' = Tail(w_todo)
    /\ UNCHANGED <<w_music, w_pc, w_years, w_raised>>
    /\ UNCHANGED <<rvars, nvars, cvars, pvars>>

\* lines 721-722: dc_pl.write(relative=relative); dc_pl is still None when
\* the loop over the years made no pass, and None has no write
WpLast ==
    /\ w_pc = "years"
    /\ w_todo = <<>>
    /\ IF w_dc_pl = <<>>
       THEN /\ w_raised' = "AttributeError"
            /\ w_pc' = "raised"
            /\ UNCHANGED w_log
       ELSE LET st == WriteOut([years |-> w_years, pls |-> w_pls, log |-> w_log,
                                raised |-> "none"], w_dc_pl[1])
            IN  /\ w_log' = st.log
                /\ w_raised' = st.raised
                /\ w_pc' = IF st.raised = "none" THEN "done" ELSE "raised"
    /\ UNCHANGED <<w_music, w_years, w_todo, w_decade, w_dc_pl, w_pls>>
    /\ UNCHANGED <<rvars, nvars, cvars, pvars>>

InitW ==
    InitCompareIdle /\ InitNormaliseIdle /\ InitClassifyIdle /\ InitPlaylistIdle
        /\ InitWrite

NextW == WpCollect \/ WpSort \/ WpYear \/ WpLast

SpecWrite == InitW /\ [][NextW]_vars

(***************************************************************************)
(* Vocabulary of the properties                                            *)
(***************************************************************************)
Range(s) == {s[i] : i \in DOMAIN s}
NoDuplicates(s) == \A i, j \in DOMAIN s : s[i] = s[j] => i = j

\* the (artist, album) pairs of a catalog, as a set
PairSet(x) ==
    UNION {{AA(x[i].artist, x[i].albums[j].album) : j \in DOMAIN x[i].albums} :
           i \in DOMAIN x}

\* y holds an artist key normalising like `artist` that has an album key
\* normalising like `album`
HasNormalised(y, artist, album) ==
    \E i \in DOMAIN y :
        /\ normalise(y[i].artist) = normalise(artist)
        /\ \E j \in DOMAIN y[i].albums :
               normalise(y[i].albums[j].album) = normalise(album)

\* no two artist keys of x, and no two album keys of one artist of x,
\* normalise to the same string
NormInjective(x) ==
    /\ \A i, j \in DOMAIN x :
           normalise(x[i].artist) = normalise(x[j].artist) => i = j
    /\ \A i \in DOMAIN x : \A j, k \in DOMAIN x[i].albums :
           normalise(x[i].albums[j].album) = normalise(x[i].albums[k].album)
               => j = k

\* x without its i-th artist entry
WithoutArtist(x, i) == SubSeq(x, 1, i - 1) \o SubSeq(x, i + 1, Len(x))

Returned(r) == [both |-> r.both, a_only |-> r.a_only, b_only |-> r.b_only]

(***************************************************************************)
(* Set reconciler                                                          *)
(***************************************************************************)
\* C1: every comp(x, y) call puts each (artist, album) pair of x in exactly
\* one of the lists both and a_only, once, and the lists hold nothing else.
C1_Completeness ==
    \A n \in DOMAIN calls :
        LET c == calls[n]
        IN  /\ NoDuplicates(c.both)
            /\ NoDuplicates(c.a_only)
            /\ Range(c.both) \cap Range(c.a_only) = {}
            /\ Range(c.both) \cup Range(c.a_only) = PairSet(c.x)

\* a comp call that filled both lists
C1_Witness ==
    \E n \in DOMAIN calls : calls[n].both # <<>> /\ calls[n].a_only # <<>>

\* C2: a pair of x is in the common list of comp(x, y) exactly when y has an
\* artist key with the same normalised form that has an album key with the
\* same normalised form, also when several artist keys of y normalise alike.
C2_CommonIffNormalisedMatch ==
    \A n \in DOMAIN calls :
        LET c == calls[n]
        IN  \A p \in PairSet(c.x) :
                p \in Range(c.both) <=> HasNormalised(c.y, p.artist, p.album)

C4_CommonFromFirstPass ==
    pc = "done" =>
        /\ result.both = calls[1].both
        /\ Range(result.both) \subseteq PairSet(a)

\* C5: an artist key with an empty album mapping, in a or in b, changes none
\* of the three lists compare(a, b) returns.
C5_EmptyArtistContributesNothing ==
    pc = "done" =>
        /\ \A i \in DOMAIN a :
               a[i].albums = <<>> => compare(WithoutArtist(a, i), b) = Returned(result)
        /\ \A i \in DOMAIN b :
               b[i].albums = <<>> => compare(a, WithoutArtist(b, i)) = Returned(result)

\* C6: with one catalog empty, compare(a, b) returns an empty common list, an
\* empty only-list for the empty side, and every pair of the other side,
\* once, in that side's only-list.
C6_EmptyCatalog ==
    pc = "done" =>
        /\ b = <<>> =>
               /\ result.both = <<>>
               /\ result.b_only = <<>>
               /\ Range(result.a_only) = PairSet(a)
               /\ Len(result.a_only) = Cardinality(PairSet(a))
        /\ a = <<>> =>
               /\ result.both = <<>>
               /\ result.a_only = <<>>
               /\ Range(result.b_only) = PairSet(b)
               /\ Len(result.b_only) = Cardinality(PairSet(b))

\* compare returned with a holding albums and b empty
C6_Witness == pc = "done" /\ b = <<>> /\ Len(result.a_only) >= 2

\* C9: a pair of x whose album key is the empty string is in the common list
\* of comp(x, y) exactly when an artist of y with the same normalised form
\* has an album key normalising to the empty string.
C9_EmptyKeyMatchedLikeAnyOther ==
    \A n \in DOMAIN calls :
        LET c == calls[n]
        IN  \A p \in PairSet(c.x) :
                p.album = <<>> =>
                    (p \in Range(c.both) <=> HasNormalised(c.y, p.artist, <<>>))

Clean(s) ==
    /\ \A i \in DOMAIN s : ~IsPunct(s[i]) /\ ~IsUpper(s[i])
    /\ s # <<>> => Head(s) \notin Whitespace /\ s[Len(s)] \notin Whitespace

\* no punctuation, no ASCII upper-case letter, no whitespace at either end
AsciiClean(s) ==
    /\ \A i \in DOMAIN s : ~IsPunct(s[i]) /\ ~IsAsciiUpper(s[i])
    /\ s # <<>> => Head(s) \notin Whitespace /\ s[Len(s)] \notin Whitespace

\* C7 as stated: normalise(normalise(x)) = normalise(x), and normalise(x)
\* holds no punctuation, no upper-case letter and no whitespace at its ends.
C7_IdempotentAsStated ==
    /\ n_pc \in {"once", "twice", "variant"} => Clean(n_out)
    /\ n_pc = "twice" => n_out2 = n_out

\* C7 amended: normalise(normalise(x)) = normalise(x), and normalise(x) holds
\* no ASCII punctuation, no ASCII upper-case letter and no whitespace at its
\* ends.
C7_Idempotent ==
    /\ n_pc \in {"once", "twice", "variant"} => AsciiClean(n_out)
    /\ n_pc = "twice" => n_out2 = n_out

\* normalise ran twice on a string with punctuation, a capital and a blank end
C7_Witness ==
    /\ n_pc = "twice"
    /\ n_txt = <<" ", "A", "/">>
    /\ n_out2 = <<"a">>

\* C8 as stated: a string and its respelling by punctuation, letter case or
\* whitespace at the ends normalise alike; "AC/DC", "ACDC" and " acdc " give
\* "acdc"; the empty string gives the empty string.
C8_SpellingInvariantAsStated ==
    /\ n_pc = "variant" => n_varout = n_out
    /\ n_pc # "in" /\ n_txt \in ACDCSpellings => n_out = <<"a", "c", "d", "c">>
    /\ n_pc # "in" /\ n_txt = <<>> => n_out = <<>>

\* C8 amended: a string and its respelling by ASCII punctuation, the case of
\* ASCII letters or whitespace at the ends normalise alike; "AC/DC", "ACDC"
\* and " acdc " give "acdc"; the empty string gives the empty string.
C8_SpellingInvariant ==
    /\ n_pc = "variant" /\ n_var \in AsciiVariants(n_txt) => n_varout = n_out
    /\ n_pc # "in" /\ n_txt \in ACDCSpellings => n_out = <<"a", "c", "d", "c">>
    /\ n_pc # "in" /\ n_txt = <<>> => n_out = <<>>

\* "ACDC" normalised as a respelling of "AC/DC"
C8_Witness ==
    /\ n_pc = "variant"
    /\ n_txt = <<"A", "C", "/", "D", "C">>
    /\ n_var = <<"A", "C", "D", "C">>
    /\ n_varout = <<"a", "c", "d", "c">>

(***************************************************************************)
(* Reference reconciler                                                    *)
(***************************************************************************)
\* the pairs of the reference whose artist and album normalise like those of
\* test pair p
Correlated(reference, p) ==
    {q \in PairSet(reference) :
        /\ normalise(q.artist) = normalise(p.artist)
        /\ normalise(q.album) = normalise(p.album)}

ArtistInReference(reference, p) ==
    \E i \in DOMAIN reference : normalise(reference[i].artist) = normalise(p.artist)

AlbumInReference(reference, p) ==
    \E q \in PairSet(reference) : normalise(q.album) = normalise(p.album)

\* the entries of the rows of one class, in order
RECURSIVE EntriesOf(_, _)
EntriesOf(rows, class) ==
    IF rows = <<>> THEN <<>>
    ELSE (IF Head(rows).class = class THEN <<Head(rows).entry>> ELSE <<>>)
         \o EntriesOf(Tail(rows), class)

\* C11: a test pair is matched exactly when its normalised artist and album
\* are found and exactly one (found artist, found album) combination is an
\* artist of the reference with that album; the matched entry is that
\* combination in the reference's spelling.
C11_MatchedIffOneCandidate ==
    /\ \A n \in DOMAIN c_rows :
           LET r == c_rows[n]
               cand == Correlated(c_ref, r.pair)
           IN  /\ r.class = "matched" <=>
                      /\ ArtistInReference(c_ref, r.pair)
                      /\ AlbumInReference(c_ref, r.pair)
                      /\ Cardinality(cand) = 1
               /\ r.class = "matched" => cand = {r.entry}
    /\ c_lists.matched = EntriesOf(c_rows, "matched")

\* a pair matched in another spelling than the test's, its album title also
\* being an album of another artist of the reference
C11_Witness ==
    /\ c_pc = "done"
    /\ \E n \in DOMAIN c_rows :
           /\ c_rows[n].class = "matched"
           /\ c_rows[n].entry # c_rows[n].pair
           /\ c_rows[n].entry \in Range(c_lists.matched)
           /\ \E q \in PairSet(c_ref) :
                  /\ q.album = c_rows[n].entry.album
                  /\ q.artist # c_rows[n].entry.artist

\* C12: a test pair with more than one passing combination is an
\* album_only_hit and not matched; one whose artist is not found and whose
\* album is found is an album_only_hit; one whose artist and album are both
\* found with no passing combination is a miss.
C12_AmbiguousIsAlbumOnlyHit ==
    /\ \A n \in DOMAIN c_rows :
           LET r == c_rows[n]
               cand == Correlated(c_ref, r.pair)
           IN  /\ Cardinality(cand) > 1 => r.class = "album_only_hit"
               /\ ~ArtistInReference(c_ref, r.pair) /\ AlbumInReference(c_ref, r.pair)
                      => r.class = "album_only_hit"
               /\ ArtistInReference(c_ref, r.pair) /\ AlbumInReference(c_ref, r.pair)
                      /\ cand = {} => r.class = "miss"
    /\ c_lists.album_only_hit = EntriesOf(c_rows, "album_only_hit")
    /\ c_lists.miss = EntriesOf(c_rows, "miss")

\* an ambiguous pair was filed as album_only_hit
C12_Witness ==
    /\ c_pc = "done"
    /\ \E n \in DOMAIN c_rows :
           /\ c_rows[n].hit > 1
           /\ c_rows[n].pair \in Range(c_lists.album_only_hit)
    /\ c_lists.matched = <<>>

(***************************************************************************)
(* Playlist                                                                *)
(***************************************************************************)
\* the songs of the lines that name a song's file, in the order written
RECURSIVE WrittenSongs(_)
WrittenSongs(out) ==
    IF out = <<>> THEN <<>>
    ELSE (IF Head(out).line \in {"relpath", "location"} THEN <<Head(out).song>>
          ELSE <<>>)
         \o WrittenSongs(Tail(out))

\* C13: insert with tag_data holding title, location and duration returns the
\* playlist itself, as append does.
C13_InsertReturnsSelf ==
    /\ p_call.method = "insert" /\ has_keys(p_call.tag_data) => p_ret = "self"
    /\ p_call.method = "append" /\ has_keys(p_call.tag_data) => p_ret = "self"

\* C14: every entry of the song list has the keys title, location and
\* duration; an append or insert of tag_data short of a key raises
\* ValueError and leaves the list as it was; an append that succeeds puts
\* the song at the end, and write puts the songs out in the list's order.
C14_SongsKeepRequiredKeys ==
    /\ \A i \in DOMAIN p_songs : RequiredKeys \subseteq p_songs[i].keys
    /\ p_call.method \in {"append", "insert"} /\ ~(RequiredKeys \subseteq p_call.tag_data.keys)
           => p_ret = "ValueError" /\ p_songs = p_call.before
    /\ p_call.method = "append" /\ RequiredKeys \subseteq p_call.tag_data.keys
           => p_songs = p_call.before \o <<p_call.tag_data>>
    /\ p_call.method = "write" /\ p_filename # <<>>
           => /\ p_ret = "None"
              /\ WrittenSongs(p_out) = [i \in 1..Len(p_songs) |-> p_songs[i].id]

\* a playlist of two different songs, the second one appended, was written
C14_Witness ==
    /\ p_call.method = "write"
    /\ p_ret = "None"
    /\ Len(p_songs) = 2
    /\ p_songs[1].id # p_songs[2].id
    /\ Len(WrittenSongs(p_out)) = 2

\* the songs of a catalog, each named by its place in it
SongsOf(music) ==
    {[id |-> <<i, j, k>>, keys |-> music[i][j][k].keys,
      release_date |-> music[i][j][k].release_date] :
        <<i, j, k>> \in {t \in (1..MaxMusicEntries + 1) \X (1..MaxMusicEntries + 1)
                                  \X (1..MaxMusicEntries + 1) :
                            /\ t[1] \in DOMAIN music
                            /\ t[2] \in DOMAIN music[t[1]]
                            /\ t[3] \in DOMAIN music[t[1]][t[2]]}}

\* the songs write_playlists has get_year return a year for
YearSongs ==
    {s \in SongsOf(w_music) :
        /\ has_keys(s)
        /\ "release_date" \in s.keys
        /\ get_year(s.release_date) # <<>>}

YearOf(s) == get_year(s.release_date)[1]

\* the year and decade playlists made so far
ReleasedPlaylists == {pl \in DOMAIN w_pls : pl[1] \in {"year", "decade"}}

\* where in the log a playlist got a song, and where it was written
AppendsAt(pl, id) == {i \in DOMAIN w_log : w_log[i] = Event("append", pl, id)}
WritesAt(pl) == {i \in DOMAIN w_log : w_log[i] = Event("write", pl, NoSong)}

\* C15: when write_playlists has returned, every song that get_year gave a
\* year y is appended once to the year playlist of y and once to the decade
\* playlist of floor(y/10)*10 and to no other year or decade playlist; each
\* year or decade playlist that got a song is written exactly once; and at
\* every moment a decade playlist that has been written had, before the
\* write, every song of every year of its decade appended, and gets none after.
C15_YearAndDecadePlaylists ==
    /\ w_pc = "done" =>
          /\ \A s \in YearSongs : \A pl \in ReleasedPlaylists :
                Cardinality(AppendsAt(pl, s.id)) =
                    IF \/ pl = PlName("year", YearOf(s), 0)
                       \/ pl = PlName("decade", 10 * (YearOf(s) \div 10), 0)
                    THEN 1 ELSE 0
          /\ \A s \in YearSongs :
                /\ PlName("year", YearOf(s), 0) \in ReleasedPlaylists
                /\ PlName("decade", 10 * (YearOf(s) \div 10), 0) \in ReleasedPlaylists
          /\ \A pl \in ReleasedPlaylists :
                w_pls[pl] # <<>> => Cardinality(WritesAt(pl)) = 1
    /\ w_pc \in {"years", "done"} =>
          \A pl \in ReleasedPlaylists : \A w \in WritesAt(pl) :
              pl[1] = "decade" =>
                  /\ \A s \in YearSongs :
                        10 * (YearOf(s) \div 10) = pl[2] =>
                            \E i \in AppendsAt(pl, s.id) : i < w
                  /\ \A i \in DOMAIN w_log :
                        (w_log[i].op = "append" /\ w_log[i].pl = pl) => i < w

\* write_playlists has returned after songs of 1989, 1990 and 1999: two
\* decade playlists, one of them holding the songs of two years
C15_Witness ==
    /\ w_pc = "done"
    /\ {1989, 1990, 1999} \subseteq DOMAIN w_years
    /\ Len(w_pls[PlName("decade", 1980, 0)]) = 1
    /\ Len(w_pls[PlName("decade", 1990, 0)]) = 2
    /\ Cardinality(WritesAt(PlName("decade", 1980, 0))) = 1
    /\ Cardinality(WritesAt(PlName("decade", 1990, 0))) = 1

\* every song of the catalog has title, location, duration and release_date
AllKeysCarried ==
    \A s \in SongsOf(w_music) : RequiredKeys \cup {"release_date"} \subseteq s.keys

\* C16: write_playlists raises nothing for a catalog whose songs all carry
\* title, location, duration and release_date, the empty catalog and the
\* catalog without a parseable release year included.
C16_NoRaiseWhenKeysCarried ==
    AllKeysCarried => w_raised = "none"

====
